---- MODULE Spec2Model ----
(***************************************************************************)
(* Model of the two Terrain programs of the repository:                    *)
(*   perline_noise.py  the plain terrain ("terrain" mode)                  *)
(*   test.py           the audio-reactive terrain ("audio" mode)           *)
(*                                                                         *)
(* Numbers.  Floats are kept exact as integers in a fixed unit:            *)
(*   offset, height scale, amplitude   hundredths   (0.18 -> 18)           *)
(*   rotation angles                   units of pi/120 (pi/60 -> 2)        *)
(*   lattice coordinates               tenths       (1.3 -> 13)            *)
(*   colour channels, noise arguments  fractions <<numerator, denominator>>*)
(* The coherent-noise primitive and the trigonometric rotation are library *)
(* calls; they are kept as uninterpreted terms over their exact arguments. *)
(*                                                                         *)
(* Lattice.  Both programs build xpoints and ypoints from the same range   *)
(* expression (42 x 42 and 32 x 32 points).  The model builds both axes    *)
(* from one point count drawn from 2..MaxPoints; the literal default       *)
(* buffer length 1024 of test.py (= 32 * 32 = CHUNK) scales with it.       *)
(***************************************************************************)
EXTENDS Integers, Sequences, FiniteSets, TLC

VARIABLES mode, interactive, xpoints, ypoints, nfaces,
          offset, theta_x, theta_y, theta_z,
          mesh, streamOpen, streamActive, timer, pc,
          ticks, frames, printed, nreads, wf_data, outcome

vars == <<mode, interactive, xpoints, ypoints, nfaces,
          offset, theta_x, theta_y, theta_z,
          mesh, streamOpen, streamActive, timer, pc,
          ticks, frames, printed, nreads, wf_data, outcome>>

(* ---------------------------- bounds ----------------------------------- *)
MaxPoints == 3
MaxTicks == 3

(* ------------------------- program constants --------------------------- *)
GridStart == -200
TerrainStep == 10
AudioStep == 13
OffsetDelta == 18
DeltaX == 2
DeltaY == 3
DeltaZ == 4
InitHeight == 150
UpdateHeight == 250
AmpScale == 4
DefaultAmp == 100
Bias == 128

(* --------------------------- lattice ----------------------------------- *)
\* range(-20, 22, nsteps) / np.arange(-20, 20 + nstep, nstep): npts points
\* starting at -20 with a fixed step.
RECURSIVE points(_, _, _)
points(npts, step, acc) ==
    IF Len(acc) >= npts THEN acc
    ELSE points(npts, step, Append(acc, GridStart + Len(acc) * step))

\* self.CHUNK = len(self.xpoints) * len(self.ypoints)
CHUNK == Len(xpoints) * Len(ypoints)

(* ----------------------- library primitives ---------------------------- *)
\* OpenSimplex.noise2(x, y): deterministic black box, kept as a term.
noise2(x, y) == <<"noise2", x, y>>

\* rotation_matrix_3d: R_z . R_y . R_x for the three angles, kept as a term.
rotation_matrix_3d(tx, ty, tz) == <<"Rz.Ry.Rx", tx, ty, tz>>

\* rotate_vertices: np.dot(vertices, R.T) applied to every vertex.
rotate_vertices(vertices, tx, ty, tz) ==
    [i \in 1..Len(vertices) |->
        [v |-> vertices[i], R |-> rotation_matrix_3d(tx, ty, tz)]]

(* ------------------------ faces and colours ---------------------------- *)
face1(n, yoff, nf) == <<n + yoff, yoff + n + nf, yoff + n + nf + 1>>
face2(n, yoff, nf) == <<n + yoff, yoff + n + 1, yoff + n + nf + 1>>

\* the gradient with the two loop variables exchanged
color_swapped(n, m, nf, alpha) == << <<m, nf>>, <<nf - m, nf>>, <<n, nf>>, <<alpha, 10>> >>

\* [n / nfaces, 1 - n / nfaces, m / nfaces, alpha]
color(n, m, nf, alpha) == << <<n, nf>>, <<nf - n, nf>>, <<m, nf>>, <<alpha, 10>> >>

\* [0, 0, 0, 0]
zero_color == << <<0, 1>>, <<0, 1>>, <<0, 1>>, <<0, 1>> >>

\* inner loop appending one colour per quad instead of one per face
RECURSIVE inner_loop_one_color(_, _, _, _, _)
inner_loop_one_color(m, n, nf, shaded, acc) ==
    IF n >= nf - 1 THEN acc
    ELSE LET yoff == m * nf
             c1 == IF shaded THEN color(n, m, nf, 7) ELSE zero_color
         IN inner_loop_one_color(m, n + 1, nf, shaded,
               [faces  |-> acc.faces \o <<face1(n, yoff, nf), face2(n, yoff, nf)>>,
                colors |-> acc.colors \o <<c1>>])

\* for n in range(self.nfaces - 1): two faces and two colours per step
RECURSIVE inner_loop(_, _, _, _, _)
inner_loop(m, n, nf, shaded, acc) ==
    IF n >= nf - 1 THEN acc
    ELSE LET yoff == m * nf
             c1 == IF shaded THEN color(n, m, nf, 7) ELSE zero_color
             c2 == IF shaded THEN color(n, m, nf, 8) ELSE zero_color
         IN inner_loop(m, n + 1, nf, shaded,
               [faces  |-> acc.faces \o <<face1(n, yoff, nf), face2(n, yoff, nf)>>,
                colors |-> acc.colors \o <<c1, c2>>])

\* outer loop over range(self.nfaces): one row of quads too many
RECURSIVE outer_loop_full_range(_, _, _, _)
outer_loop_full_range(m, nf, shaded, acc) ==
    IF m >= nf THEN acc
    ELSE outer_loop_full_range(m + 1, nf, shaded, inner_loop(m, 0, nf, shaded, acc))

\* for m in range(self.nfaces - 1): yoff = m * self.nfaces; inner loop
RECURSIVE outer_loop(_, _, _, _)
outer_loop(m, nf, shaded, acc) ==
    IF m >= nf - 1 THEN acc
    ELSE outer_loop(m + 1, nf, shaded, inner_loop(m, 0, nf, shaded, acc))

\* perline_noise.py __init__: faces with all-zero colours
init_faces_colors(nf) == outer_loop(0, nf, FALSE, [faces |-> <<>>, colors |-> <<>>])

\* perline_noise.py update / test.py mesh: faces with the gradient colours.
\* (The uint32 conversion of the faces keeps every index: the loop only
\* produces indices from 0 to nfaces * nfaces - 1.)
shaded_faces_colors(nf) == outer_loop(0, nf, TRUE, [faces |-> <<>>, colors |-> <<>>])

(* ---------------------------- vertices --------------------------------- *)
\* the comprehension with its two loops exchanged (ys outer, xs inner)
RECURSIVE enumerate_nodes_y_outer(_, _, _, _, _)
enumerate_nodes_y_outer(xs, ys, n, m, acc) ==
    IF m >= Len(ys) THEN acc
    ELSE IF n >= Len(xs) THEN enumerate_nodes_y_outer(xs, ys, 0, m + 1, acc)
    ELSE enumerate_nodes_y_outer(xs, ys, n + 1, m,
                                 Append(acc, <<n, xs[n + 1], m, ys[m + 1]>>))

\* "for n, x in enumerate(xs) for m, y in enumerate(ys)": the nodes in the
\* order the comprehension visits them, as <<n, x, m, y>>.
RECURSIVE enumerate_nodes(_, _, _, _, _)
enumerate_nodes(xs, ys, n, m, acc) ==
    IF n >= Len(xs) THEN acc
    ELSE IF m >= Len(ys) THEN enumerate_nodes(xs, ys, n + 1, 0, acc)
    ELSE enumerate_nodes(xs, ys, n, m + 1,
                         Append(acc, <<n, xs[n + 1], m, ys[m + 1]>>))

nodes == enumerate_nodes(xpoints, ypoints, 0, 0, <<>>)

\* a height "k * noise2(x, y)", k in hundredths
height(k, x, y) == [k |-> k, noise |-> noise2(x, y)]

\* perline_noise.py __init__: [x, y, 1.5 * noise2(n / 5, m / 5)]
init_verts ==
    [i \in 1..Len(nodes) |->
        <<nodes[i][2], nodes[i][4],
          height(InitHeight, <<20 * nodes[i][1], 100>>, <<20 * nodes[i][3], 100>>)>>]

\* perline_noise.py update: [x, y, 2.5 * noise2(n / 5 + offset, m / 5 + offset)]
update_verts(off) ==
    [i \in 1..Len(nodes) |->
        <<nodes[i][2], nodes[i][4],
          height(UpdateHeight, <<20 * nodes[i][1] + off, 100>>,
                               <<20 * nodes[i][3] + off, 100>>)>>]

(* ----------------------- amplitude buffer ------------------------------ *)
\* an unpack that takes whatever bytes it is given
unpack_any_length(count, raw) == [err |-> "none", data |-> raw]

\* struct.unpack(str(2 * CHUNK) + 'B', wf_data): the bytes as integers
\* 0..255; struct.error unless the buffer holds exactly 2 * CHUNK bytes.
unpack(count, raw) ==
    IF Len(raw) = count THEN [err |-> "none", data |-> raw]
    ELSE [err |-> "struct.error", data |-> <<>>]

\* np.array(..., dtype='b'): a byte value stored as a signed 8-bit integer
ToInt8(b) == IF b % 256 >= 128 THEN (b % 256) - 256 ELSE b % 256

\* the sum kept in eight bits
WrapInt8(v) == IF v % 256 >= 128 THEN (v % 256) - 256 ELSE v % 256

\* the result type of "int8 array + 128" is int16
ToInt16(v) == IF v % 65536 >= 32768 THEN (v % 65536) - 65536 ELSE v % 65536

\* a[::2]
every_other(a) == [i \in 1..((Len(a) + 1) \div 2) |-> a[2 * i - 1]]

\* a.reshape((rows, cols)), row-major; ValueError unless the sizes agree
reshape(a, rows, cols) ==
    IF Len(a) = rows * cols
    THEN [err |-> "none",
          data |-> [n \in 0..(rows - 1) |-> [m \in 0..(cols - 1) |-> a[n * cols + m + 1]]]]
    ELSE [err |-> "ValueError", data |-> <<>>]

\* test.py mesh, lines 62-65: bytes -> int8 -> [::2] + 128 -> int32 - 128 -> * 0.04
amplitudes(bytes) ==
    LET signed   == [i \in 1..Len(bytes) |-> ToInt8(bytes[i])]
        picked   == every_other(signed)
        biased   == [i \in 1..Len(picked) |-> ToInt16(picked[i] + Bias)]
        centred  == [i \in 1..Len(biased) |-> biased[i] - Bias]
    IN [i \in 1..Len(centred) |-> centred[i] * AmpScale]

\* np.array([1] * 1024): the literal is CHUNK of the shipped 32 x 32 lattice
default_amplitudes == [i \in 1..CHUNK |-> DefaultAmp]

\* test.py mesh(offset, wf_data): given = FALSE stands for wf_data=None
mesh_of(off, given, raw) ==
    LET N    == Len(xpoints)
        M    == Len(ypoints)
        un   == IF given THEN unpack(2 * CHUNK, raw)
                ELSE [err |-> "none", data |-> <<>>]
        flat == IF given THEN amplitudes(un.data) ELSE default_amplitudes
        grid == reshape(flat, N, M)
        fc   == shaded_faces_colors(nfaces)
    IN IF un.err # "none" THEN [err |-> un.err]
       ELSE IF grid.err # "none" THEN [err |-> grid.err]
       ELSE [err |-> "none",
             vertexes |->
                [i \in 1..Len(nodes) |->
                    <<nodes[i][2], nodes[i][4],
                      height(grid.data[nodes[i][1]][nodes[i][3]],
                             <<200 * nodes[i][1] + 11 * off, 1100>>,
                             <<250 * nodes[i][3] + 13 * off, 1300>>)>>],
             faces |-> fc.faces,
             faceColors |-> fc.colors]

(* ------------------------- capture source ------------------------------ *)
SeedBytes == {0, 127, 128, 255}
Strides == {1, 77}

\* a raw buffer of len bytes: byte i (from 0) is (a + b * i) mod 256
capture(len, a, b) == [i \in 1..len |-> (a + b * (i - 1)) % 256]

\* stream.read(CHUNK) on a paInt16 mono stream: CHUNK frames of two bytes each
Captures == {capture(2 * CHUNK, a, b) : a \in SeedBytes, b \in Strides}

\* buffers of any length, for the height sampler called on its own
Lengths == {0, CHUNK, 2 * CHUNK - 1, 2 * CHUNK, 2 * CHUNK + 1, 2 * CHUNK + 2}
AnyCaptures == {capture(len, 128, 77) : len \in Lengths}

(* ------------------------- construction -------------------------------- *)
\* Terrain.__init__ of perline_noise.py: frame 0
terrain_frame0 ==
    LET fc == init_faces_colors(nfaces)
    IN [vertexes   |-> rotate_vertices(init_verts, 0, 0, 0),
        faces      |-> fc.faces,
        faceColors |-> fc.colors]

\* Terrain.__init__ of test.py: frame 0 is self.mesh()
audio_frame0 ==
    LET r == mesh_of(0, FALSE, <<>>)
    IN [vertexes |-> r.vertexes, faces |-> r.faces, faceColors |-> r.faceColors]

Construct(md) ==
    /\ mode = md
    /\ interactive \in BOOLEAN
    /\ \E npts \in 2..MaxPoints :
          /\ xpoints = points(npts, IF md = "terrain" THEN TerrainStep ELSE AudioStep, <<>>)
          /\ ypoints = points(npts, IF md = "terrain" THEN TerrainStep ELSE AudioStep, <<>>)
    /\ nfaces = Len(ypoints)
    /\ offset = 0
    /\ theta_x = 0 /\ theta_y = 0 /\ theta_z = 0
    /\ streamOpen = (md = "audio")
    /\ streamActive = (md = "audio")
    /\ mesh = IF md = "terrain" THEN terrain_frame0 ELSE audio_frame0
    /\ timer = "none"
    /\ pc = "constructed"
    /\ ticks = 0
    /\ frames = 1
    /\ printed = 0
    /\ nreads = 0
    /\ wf_data = <<>>
    /\ outcome = "none"

Init == Construct("terrain") \/ Construct("audio")

(* --------------------------- operations -------------------------------- *)
\* Terrain.start: exec_() unless running under an interactive interpreter
start_runs_loop == ~interactive

\* Terrain.animation up to the call of start(): the timer is created,
\* connected and started, and the event loop is entered.
animation ==
    /\ pc = "constructed"
    /\ timer' = "active"
    /\ pc' = IF start_runs_loop THEN "exec" ELSE "returned"
    /\ UNCHANGED <<mode, interactive, xpoints, ypoints, nfaces, offset,
                   theta_x, theta_y, theta_z, mesh, streamOpen, streamActive,
                   ticks, frames, printed, nreads, wf_data, outcome>>

\* update() with the offset advanced before the vertices are sampled
update_plain_offset_first ==
    /\ theta_x' = theta_x - DeltaX
    /\ theta_y' = theta_y + DeltaY
    /\ theta_z' = theta_z - DeltaZ
    /\ offset' = offset - OffsetDelta
    /\ LET fc == shaded_faces_colors(nfaces)
       IN mesh' = [vertexes   |-> rotate_vertices(update_verts(offset'),
                                                  theta_x', theta_y', theta_z'),
                   faces      |-> fc.faces,
                   faceColors |-> fc.colors]
    /\ ticks' = ticks + 1
    /\ frames' = frames + 1
    /\ outcome' = "published"

\* Terrain.update of perline_noise.py, one whole call
update_plain ==
    /\ theta_x' = theta_x - DeltaX
    /\ theta_y' = theta_y + DeltaY
    /\ theta_z' = theta_z - DeltaZ
    /\ LET fc == shaded_faces_colors(nfaces)
       IN mesh' = [vertexes   |-> rotate_vertices(update_verts(offset),
                                                  theta_x', theta_y', theta_z'),
                   faces      |-> fc.faces,
                   faceColors |-> fc.colors]
    /\ offset' = offset - OffsetDelta
    /\ ticks' = ticks + 1
    /\ frames' = frames + 1
    /\ outcome' = "published"

\* the timer fires in the event loop of perline_noise.py
update_terrain ==
    /\ mode = "terrain"
    /\ pc = "exec"
    /\ timer = "active"
    /\ ticks < MaxTicks
    /\ update_plain
    /\ UNCHANGED <<mode, interactive, xpoints, ypoints, nfaces, streamOpen,
                   streamActive, timer, pc, printed, nreads, wf_data>>

\* update() of test.py publishing the flat default mesh when the read fails
update_capture_publish_on_error(rd, onfail) ==
    /\ ticks' = ticks + 1
    /\ IF ~streamActive
       THEN /\ outcome' = "inactive"
            /\ UNCHANGED <<mesh, frames, printed, nreads, wf_data, pc, timer>>
       ELSE IF rd.err = "OSError"
       THEN LET r == mesh_of(offset, FALSE, <<>>)
            IN /\ outcome' = "OSError"
               /\ printed' = printed + 1
               /\ mesh' = [vertexes   |-> r.vertexes,
                           faces      |-> r.faces,
                           faceColors |-> r.faceColors]
               /\ frames' = frames + 1
               /\ UNCHANGED <<nreads, wf_data, pc, timer>>
       ELSE LET r == mesh_of(offset, TRUE, rd.bytes)
            IN /\ wf_data' = rd.bytes
               /\ nreads' = nreads + 1
               /\ mesh' = [vertexes   |-> r.vertexes,
                           faces      |-> r.faces,
                           faceColors |-> r.faceColors]
               /\ frames' = frames + 1
               /\ outcome' = "published"
               /\ UNCHANGED <<printed, pc, timer>>
    /\ UNCHANGED <<mode, interactive, xpoints, ypoints, nfaces, offset,
                   theta_x, theta_y, theta_z, streamOpen, streamActive>>

\* Terrain.update of test.py, one whole call.  rd is what stream.read does:
\* [err |-> "OSError"] or [err |-> "none", bytes |-> ...]; an exception other
\* than OSError leaves update() and the slot, and the Qt binding either
\* reports it and goes on or aborts the process (onfail).
update_capture(rd, onfail) ==
    /\ ticks' = ticks + 1
    /\ IF ~streamActive
       THEN /\ outcome' = "inactive"
            /\ UNCHANGED <<mesh, frames, printed, nreads, wf_data, pc, timer>>
       ELSE IF rd.err = "OSError"
       THEN /\ outcome' = "OSError"
            /\ printed' = printed + 1
            /\ UNCHANGED <<mesh, frames, nreads, wf_data, pc, timer>>
       ELSE LET r == mesh_of(offset, TRUE, rd.bytes)
            IN /\ wf_data' = rd.bytes
               /\ nreads' = nreads + 1
               /\ IF r.err = "none"
                  THEN /\ mesh' = [vertexes   |-> r.vertexes,
                                   faces      |-> r.faces,
                                   faceColors |-> r.faceColors]
                       /\ frames' = frames + 1
                       /\ outcome' = "published"
                       /\ UNCHANGED <<printed, pc, timer>>
                  ELSE /\ outcome' = r.err
                       /\ pc' = IF onfail = "abort" THEN "aborted" ELSE pc
                       /\ timer' = IF onfail = "abort" THEN "destroyed" ELSE timer
                       /\ UNCHANGED <<mesh, frames, printed>>
    /\ UNCHANGED <<mode, interactive, xpoints, ypoints, nfaces, offset,
                   theta_x, theta_y, theta_z, streamOpen, streamActive>>

Reads(buffers) == {[err |-> "OSError"]} \cup {[err |-> "none", bytes |-> b] : b \in buffers}

\* the timer fires in the event loop of test.py; the capture source returns
\* exactly CHUNK frames or raises
update_audio ==
    /\ mode = "audio"
    /\ pc = "exec"
    /\ timer = "active"
    /\ ticks < MaxTicks
    /\ \E rd \in Reads(Captures) : update_capture(rd, "continue")

\* the same tick with a capture source that hands over a buffer of any length
update_sampler ==
    /\ mode = "audio"
    /\ pc = "exec"
    /\ timer = "active"
    /\ ticks < MaxTicks
    /\ \E rd \in Reads(AnyCaptures), onfail \in {"continue", "abort"} :
          update_capture(rd, onfail)

\* the capture device stops delivering: stream.is_active() turns false
device_lost ==
    /\ mode = "audio"
    /\ pc = "exec"
    /\ streamActive
    /\ streamActive' = FALSE
    /\ UNCHANGED <<mode, interactive, xpoints, ypoints, nfaces, offset,
                   theta_x, theta_y, theta_z, mesh, streamOpen, timer, pc,
                   ticks, frames, printed, nreads, wf_data, outcome>>

\* the event loop is shut down: exec_() returns into start()
quit ==
    /\ pc = "exec"
    /\ pc' = "returned"
    /\ UNCHANGED <<mode, interactive, xpoints, ypoints, nfaces, offset,
                   theta_x, theta_y, theta_z, mesh, streamOpen, streamActive,
                   timer, ticks, frames, printed, nreads, wf_data, outcome>>

\* Terrain.animation after start() has returned: perline_noise.py calls
\* update() once more; then the method returns and its local timer goes.
animation_return ==
    /\ pc = "returned"
    /\ pc' = "done"
    /\ timer' = "destroyed"
    /\ IF mode = "terrain"
       THEN update_plain
       ELSE UNCHANGED <<offset, theta_x, theta_y, theta_z, mesh, ticks, frames, outcome>>
    /\ UNCHANGED <<mode, interactive, xpoints, ypoints, nfaces, streamOpen,
                   streamActive, printed, nreads, wf_data>>

Next == animation \/ update_terrain \/ update_audio \/ device_lost \/ quit
           \/ animation_return

Spec == Init /\ [][Next]_vars

\* the audio program with the height sampler fed buffers of any length
InitSampler == Construct("audio")

NextSampler == animation \/ update_sampler \/ quit \/ animation_return

SpecSampler == InitSampler /\ [][NextSampler]_vars

\* AnimationDriver state: Idle until the event loop runs, Stopped once the
\* loop has been left (or, when start() runs no loop, once animation() is over)
driver == IF pc = "constructed" THEN "Idle"
          ELSE IF pc = "exec" THEN "Running"
          ELSE IF pc = "returned" /\ ~start_runs_loop THEN "Idle"
          ELSE "Stopped"

(* ============================ properties =============================== *)
N == Len(xpoints)
M == Len(ypoints)

\* the lattice node a published vertex sits on, as <<x, y>>
VertexXY(i) == IF mode = "terrain"
               THEN <<mesh.vertexes[i].v[1], mesh.vertexes[i].v[2]>>
               ELSE <<mesh.vertexes[i][1], mesh.vertexes[i][2]>>

\* the height term of a published vertex
VertexZ(i) == IF mode = "terrain" THEN mesh.vertexes[i].v[3] ELSE mesh.vertexes[i][3]

\* the index mapping of the lattice: n over xpoints, m over ypoints
Index(n, m) == m + n * M

Corners(n, m) == {Index(n, m), Index(n + 1, m), Index(n, m + 1), Index(n + 1, m + 1)}

FaceSet(f) == {f[1], f[2], f[3]}

Published == /\ outcome = "published"
             /\ ticks >= 1

C2_SameIndexMapping ==
    /\ Len(mesh.vertexes) = N * M
    /\ \A n \in 0..(N - 1) : \A m \in 0..(M - 1) :
          VertexXY(Index(n, m) + 1) = <<xpoints[n + 1], ypoints[m + 1]>>
    /\ \A i \in 1..Len(mesh.faces) :
          /\ Cardinality(FaceSet(mesh.faces[i])) = 3
          /\ \E n \in 0..(N - 2) : \E m \in 0..(M - 2) :
                FaceSet(mesh.faces[i]) \subseteq Corners(n, m)
    /\ Len(mesh.faces) % 2 = 0
    /\ \A q \in 1..(Len(mesh.faces) \div 2) :
          LET a == FaceSet(mesh.faces[2 * q - 1])
              b == FaceSet(mesh.faces[2 * q])
          IN \E n \in 0..(N - 2) : \E m \in 0..(M - 2) :
                /\ a \cup b = Corners(n, m)
                /\ a \cap b = {Index(n, m), Index(n + 1, m + 1)}

C2_Witness == Published /\ N = 3 /\ Len(mesh.vertexes) = 9 /\ mode = "audio"

\* C3: the sink always holds N*M vertices and 2*(N-1)*(M-1) faces and as many
\* colours, and the sink's content only changes by one hand-off of all three.
ConsistentMesh ==
    /\ Len(mesh.vertexes) = N * M
    /\ Len(mesh.faces) = 2 * (N - 1) * (M - 1)
    /\ Len(mesh.faceColors) = Len(mesh.faces)
    /\ DOMAIN mesh = {"vertexes", "faces", "faceColors"}

C3_ConsistentHandOff ==
    /\ []ConsistentMesh
    /\ [][mesh' # mesh => frames' = frames + 1]_vars

C3_Witness == Published /\ frames >= 3 /\ N = 3

\* C4: an audio tick whose read raises OSError publishes nothing (the sink
\* keeps the mesh of the last publish), prints the error and leaves the driver
\* Running; every tick whose read returns data publishes the mesh of that data.
C4_ReadFailureSkipsTick ==
    [][(mode = "audio" /\ ticks' = ticks + 1) =>
          /\ (outcome' = "OSError" =>
                 /\ mesh' = mesh
                 /\ frames' = frames
                 /\ printed' = printed + 1
                 /\ driver' = "Running")
          /\ (printed' # printed => outcome' = "OSError")
          /\ (nreads' = nreads + 1 =>
                 /\ outcome' = "published"
                 /\ frames' = frames + 1
                 /\ mesh'.vertexes = mesh_of(offset, TRUE, wf_data').vertexes
                 /\ driver' = "Running")]_vars

C4_Witness == /\ mode = "audio"
              /\ printed >= 1
              /\ outcome = "published"
              /\ frames = 2
              /\ ticks >= 2

\* C5: a tick whose buffer does not hold exactly CHUNK = N*M two-byte samples
\* ends in an error and publishes nothing; only buffers of exactly that
\* length are ever turned into a mesh.
C5_LengthMismatchRaises ==
    [][(nreads' = nreads + 1 /\ Len(wf_data') # 2 * N * M) =>
          /\ outcome' \in {"struct.error", "ValueError"}
          /\ mesh' = mesh
          /\ frames' = frames]_vars

C5_Witness == /\ outcome = "struct.error"
              /\ Len(wf_data) = 2 * N * M - 1
              /\ nreads >= 2
              /\ frames = 2

\* the signed 8-bit reading of a byte value 0..255
Signed8(b) == IF b >= 128 THEN b - 256 ELSE b

\* C10: after a successful read the amplitude of node (n,m), found at vertex
\* Index(n,m) = m + n*M, is 0.04 * s (4 * s hundredths) with s the signed
\* 8-bit value of byte 2*(n*M + m) of the raw capture.
C10_AmplitudeMapping ==
    (mode = "audio" /\ nreads >= 1) =>
        /\ Len(wf_data) = 2 * N * M
        /\ \A n \in 0..(N - 1) : \A m \in 0..(M - 1) :
              VertexZ(Index(n, m) + 1).k = 4 * Signed8(wf_data[2 * (n * M + m) + 1])

C10_Witness == /\ mode = "audio"
               /\ nreads >= 1
               /\ N = 3
               /\ \E i \in 0..(N * M - 1) : wf_data[2 * i + 1] >= 128
               /\ \E i \in 0..(N * M - 1) : wf_data[2 * i + 1] \in 1..127

\* equality of two fractions <<numerator, denominator>>
RatEq(a, b) == a[1] * b[2] = b[1] * a[2]

SameColor(c, r, g, b, a) ==
    RatEq(c[1], r) /\ RatEq(c[2], g) /\ RatEq(c[3], b) /\ RatEq(c[4], a)

\* every channel of every colour of the sink lies in [0, 1]
ChannelsInUnit ==
    \A i \in 1..Len(mesh.faceColors) : \A j \in 1..4 :
        /\ mesh.faceColors[i][j][2] > 0
        /\ mesh.faceColors[i][j][1] >= 0
        /\ mesh.faceColors[i][j][1] <= mesh.faceColors[i][j][2]

\* the two faces of quad (n, m) of the face loop (the quad whose first vertex
\* index is n + m * nfaces) carry (n/N, 1 - n/N, m/N) with alpha 0.7 and 0.8
Gradient ==
    /\ Len(mesh.faceColors) = 2 * (N - 1) * (N - 1)
    /\ Len(mesh.faces) = Len(mesh.faceColors)
    /\ \A m \in 0..(N - 2) : \A n \in 0..(N - 2) :
          LET q == m * (N - 1) + n
          IN /\ mesh.faces[2 * q + 1][1] = n + m * N
             /\ mesh.faces[2 * q + 2][1] = n + m * N
             /\ SameColor(mesh.faceColors[2 * q + 1],
                          <<n, N>>, <<N - n, N>>, <<m, N>>, <<7, 10>>)
             /\ SameColor(mesh.faceColors[2 * q + 2],
                          <<n, N>>, <<N - n, N>>, <<m, N>>, <<8, 10>>)

AllZeroColors ==
    \A i \in 1..Len(mesh.faceColors) : \A j \in 1..4 : mesh.faceColors[i][j][1] = 0

TerrainFrame(k, off) ==
    rotate_vertices(update_verts(off), 0 - k * DeltaX, k * DeltaY, 0 - k * DeltaZ)

\* C8 as stated: the k-th update publishes geometry sampled at offset k * delta.
C8_Original ==
    (mode = "terrain" /\ ticks >= 1) =>
        mesh.vertexes = TerrainFrame(ticks, 0 - ticks * OffsetDelta)

\* C8 amended: update() advances the angles, samples and publishes at the
\* offset left by the previous call, and advances the offset last: the k-th
\* update publishes offset (k-1) * delta with the angles advanced k times,
\* and leaves offset k * delta; the first update samples offset 0 of frame 0.
C8_OffsetAdvancedLast ==
    (mode = "terrain" /\ ticks >= 1) =>
        /\ mesh.vertexes = TerrainFrame(ticks, 0 - (ticks - 1) * OffsetDelta)
        /\ offset = 0 - ticks * OffsetDelta
        /\ theta_x = 0 - ticks * DeltaX
        /\ theta_y = ticks * DeltaY
        /\ theta_z = 0 - ticks * DeltaZ

C8_Witness == mode = "terrain" /\ ticks = 2 /\ pc = "exec" /\ offset = -36

\* C6: when the audio program is over the timer is halted and the capture
\* stream is closed.
C6_CaptureReleased ==
    (mode = "audio" /\ pc = "done") => (timer # "active" /\ ~streamOpen)

\* C9: once the driver is Stopped no update runs: offset, angles and the
\* sink's mesh stay as they are.
C9_StoppedIsTerminal ==
    [][driver = "Stopped" =>
          UNCHANGED <<offset, theta_x, theta_y, theta_z, mesh, ticks, frames>>]_vars

====
